---------------------------- MODULE Spec2Model ----------------------------
(***************************************************************************)
(* A model of RedisCalculator (src/calculator.py): the closed-form         *)
(* estimators calculate_memory and calculate_cpu_cores, the 100-sample     *)
(* loop of simulate_memory_usage, and analyze_memory_trend.                *)
(*                                                                         *)
(* Numbers.  The Python code computes in binary64.  The model computes in  *)
(* exact arithmetic on the grid of multiples of 1/Den, Den = 99 * 10: the  *)
(* 99 is the divisor of np.linspace(0, stop, num=100) and the 10 is the    *)
(* denominator of the eviction factors 0.8 and 0.9.  A number is a record  *)
(* [w, f] standing for w + f/Den with 0 <= f < Den, so that byte counts up *)
(* to 2^31 keep a fractional part.  Sums, differences and products by an   *)
(* integer are exact; the product by (1 - eviction_factor) and the         *)
(* quotient of analyze_memory_trend are rounded to the grid, as binary64   *)
(* rounds them to its own.                                                 *)
(***************************************************************************)
EXTENDS Integers, Sequences, FiniteSets

VARIABLES
    op,               \* the function of RedisCalculator the caller invokes
    pc,               \* the position inside the call
    avg_object_size,  \* argument (bytes)
    num_keys,         \* argument of calculate_memory / calculate_cpu_cores
    initial_keys,     \* argument of simulate_memory_usage
    tps,              \* argument
    ttl,              \* argument (seconds)
    eviction_policy,  \* argument (a string, as its sequence of characters)
    duration_hours,   \* argument
    timestamps,       \* local of simulate_memory_usage (seconds)
    i,                \* number of loop iterations of simulate_memory_usage done
    current_keys,     \* local of simulate_memory_usage, carried by the loop
    new_keys,         \* local of simulate_memory_usage (last iteration)
    expired_keys,     \* local of simulate_memory_usage (last iteration)
    memory_usage,     \* local of simulate_memory_usage
    df,               \* the returned frame: columns timestamp (hours), memory
    memory_bytes,     \* result of calculate_memory
    cpu_cores,        \* result of calculate_cpu_cores
    trend,            \* result of analyze_memory_trend
    percent_change,   \* result of analyze_memory_trend
    outcome           \* how the call ended: "pending", "returned" or "raised"

vars == <<op, pc, avg_object_size, num_keys, initial_keys, tps, ttl,
          eviction_policy, duration_hours, timestamps, i, current_keys,
          new_keys, expired_keys, memory_usage, df, memory_bytes, cpu_cores,
          trend, percent_change, outcome>>

---------------------------------------------------------------------------
(* Program constants.                                                      *)

MEMORY_OVERHEAD_PER_KEY == 150

BASE_MEMORY == 50 * 1024 * 1024

MAX_KEYS_PER_CPU_CORE == 1000000

TPS_PER_CPU_CORE == 50000

NumSamples == 100

SecondsPerHour == 3600

EvictionThresholdFactor == 10

\* The grid of the model's arithmetic: multiples of 1/Den.
Den == (NumSamples - 1) * 10

---------------------------------------------------------------------------
(* Bounds of the input sets.                                               *)

MaxTps == 1

MaxDelta == 3

---------------------------------------------------------------------------
(* Arithmetic on the grid.                                                 *)

\* w + u/Den brought to the form [w, f] with 0 <= f < Den.
Norm(w, u) == [w |-> w + (u \div Den), f |-> u % Den]

NumOfInt(n) == [w |-> n, f |-> 0]

Zero == NumOfInt(0)

NAdd(a, b) == Norm(a.w + b.w, a.f + b.f)

NSub(a, b) == Norm(a.w - b.w, a.f - b.f)

NMulInt(n, a) == Norm(n * a.w, n * a.f)

NLess(a, b) == a.w < b.w \/ (a.w = b.w /\ a.f < b.f)

NLeq(a, b) == a = b \/ NLess(a, b)

NMax(a, b) == IF NLess(a, b) THEN b ELSE a

NNeg(a) == NSub(Zero, a)

NAbs(a) == IF NLess(a, Zero) THEN NNeg(a) ELSE a

\* a / d for an integer d > 0 (used on time values only, where it is exact).
NDivInt(a, d) == Norm(0, (a.w * Den + a.f) \div d)

\* a * (k/10), rounded to the nearest multiple of 1/Den.
NMulTenths(a, k) == Norm(0, a.w * k * (Den \div 10) + ((a.f * k + 5) \div 10))

\* floor(a / s) and the remainder, for a >= 0 and s > 0; by doubling, so
\* that no intermediate exceeds a.
RECURSIVE NDivMod(_, _)
NDivMod(a, s) ==
    IF NLess(a, s) THEN [q |-> 0, r |-> a]
    ELSE IF NLess(NSub(a, s), s) THEN [q |-> 1, r |-> NSub(a, s)]
    ELSE LET h == NDivMod(a, NAdd(s, s))
         IN  IF NLess(h.r, s) THEN [q |-> 2 * h.q, r |-> h.r]
             ELSE [q |-> 2 * h.q + 1, r |-> NSub(h.r, s)]

\* floor(k * a / s) and the remainder, for 0 <= a < s and an integer k >= 0;
\* by halving k, every intermediate remainder stays below s.
RECURSIVE NMulDiv(_, _, _)
NMulDiv(a, k, s) ==
    IF k = 0 THEN [q |-> 0, r |-> Zero]
    ELSE LET h  == NMulDiv(a, k \div 2, s)
             c2 == ~NLess(h.r, NSub(s, h.r))
             d  == [q |-> 2 * h.q + (IF c2 THEN 1 ELSE 0),
                    r |-> IF c2 THEN NSub(h.r, NSub(s, h.r)) ELSE NAdd(h.r, h.r)]
             c1 == ~NLess(d.r, NSub(s, a))
         IN  IF k % 2 = 0 THEN d
             ELSE [q |-> d.q + (IF c1 THEN 1 ELSE 0),
                   r |-> IF c1 THEN NSub(d.r, NSub(s, a)) ELSE NAdd(d.r, a)]

\* ceil(n / d) for an integer d > 0.
CeilDiv(n, d) == -((-n) \div d)

MaxInt(a, b) == IF a < b THEN b ELSE a

---------------------------------------------------------------------------
(* Strings, as sequences of characters.                                    *)

StartsWith(s, prefix) ==
    Len(s) >= Len(prefix) /\ SubSeq(s, 1, Len(prefix)) = prefix

NoEviction == <<"n", "o", "e", "v", "i", "c", "t", "i", "o", "n">>

AllkeysPrefix == <<"a", "l", "l", "k", "e", "y", "s">>

AllkeysLru == AllkeysPrefix \o <<"-", "l", "r", "u">>

VolatileLru == <<"v", "o", "l", "a", "t", "i", "l", "e", "-", "l", "r", "u">>

\* A name that is not one of Redis's: a proper prefix of "allkeys".
Allkey == <<"a", "l", "l", "k", "e", "y">>

---------------------------------------------------------------------------
(* The estimators.                                                         *)

\* Mutant: the per-key overhead is left out.
CalculateMemoryNoOverhead(size, keys) ==
    NAdd(NMulInt(size, keys), NumOfInt(BASE_MEMORY))

\* Mutant: negative arguments are silently taken as 0.
CalculateMemoryClamped(size, keys) ==
    LET s == MaxInt(0, size)
        k == NMax(Zero, keys)
    IN  NAdd(NAdd(NMulInt(s, k), NMulInt(MEMORY_OVERHEAD_PER_KEY, k)),
             NumOfInt(BASE_MEMORY))

\* calculate_memory, with the key count a number of the grid (the loop of
\* simulate_memory_usage passes a fractional key count).
CalculateMemory(size, keys) ==
    LET data_size == NMulInt(size, keys)
        overhead  == NMulInt(MEMORY_OVERHEAD_PER_KEY, keys)
    IN  NAdd(NAdd(data_size, overhead), NumOfInt(BASE_MEMORY))

\* Mutant: ceil written as floor + 1.
CalculateCpuCoresFloorPlusOne(keys, tps_) ==
    LET cores_by_keys == (keys \div MAX_KEYS_PER_CPU_CORE) + 1
        cores_by_tps  == IF tps_ # 0 THEN (tps_ \div TPS_PER_CPU_CORE) + 1 ELSE 0
    IN  MaxInt(1, MaxInt(cores_by_keys, cores_by_tps))

CalculateCpuCores(keys, tps_) ==
    LET cores_by_keys == CeilDiv(keys, MAX_KEYS_PER_CPU_CORE)
        cores_by_tps  == IF tps_ # 0 THEN CeilDiv(tps_, TPS_PER_CPU_CORE) ELSE 0
    IN  MaxInt(1, MaxInt(cores_by_keys, cores_by_tps))

---------------------------------------------------------------------------
(* simulate_memory_usage.                                                  *)

\* Mutant: the end point is left out (step stop / num).
LinspaceNoEndpoint(stop, num) ==
    LET step == NDivInt(NumOfInt(stop), num)
    IN  [k \in 1..num |-> NMulInt(k - 1, step)]

\* np.linspace(0, stop, num): num points, step stop / (num - 1), the last
\* point set to stop.
Linspace(stop, num) ==
    LET step == NDivInt(NumOfInt(stop), num - 1)
    IN  [k \in 1..num |-> IF k = num THEN NumOfInt(stop)
                          ELSE NMulInt(k - 1, step)]

NewKeys(tps_, t) == NMulInt(tps_, t)

\* Mutant: t - ttl is not floored at 0.
ExpiredByTtlNoFloor(tps_, ttl_, t) ==
    IF ttl_ > 0 THEN NMulInt(tps_, NSub(t, NumOfInt(ttl_))) ELSE Zero

ExpiredByTtl(tps_, ttl_, t) ==
    IF ttl_ > 0 THEN NMulInt(tps_, NMax(Zero, NSub(t, NumOfInt(ttl_))))
    ELSE Zero

\* Mutant: the policy is matched by its whole name, not by its prefix.
EvictionFactorTenthsByName(policy) ==
    IF policy = AllkeysLru THEN 8 ELSE 9

\* eviction_factor in tenths: 0.8 for "allkeys..." and 0.9 otherwise.
EvictionFactorTenths(policy) ==
    IF StartsWith(policy, AllkeysPrefix) THEN 8 ELSE 9

\* Mutant: the test on the policy is inverted.
EvictionTriggeredInverted(policy, cur, size) ==
    /\ policy = NoEviction
    /\ NLess(NumOfInt(BASE_MEMORY * EvictionThresholdFactor), NMulInt(size, cur))

EvictionTriggered(policy, cur, size) ==
    /\ policy # NoEviction
    /\ NLess(NumOfInt(BASE_MEMORY * EvictionThresholdFactor), NMulInt(size, cur))

\* Mutant: the eviction is computed from initial_keys, not from the key
\* count the loop carries.
EvictedFromInitialKeys(policy, cur, size) ==
    IF EvictionTriggered(policy, NumOfInt(initial_keys), size)
    THEN NMulTenths(NumOfInt(initial_keys), 10 - EvictionFactorTenths(policy))
    ELSE Zero

\* What the eviction branch adds to expired_keys: cur * (1 - eviction_factor).
Evicted(policy, cur, size) ==
    IF EvictionTriggered(policy, cur, size)
    THEN NMulTenths(cur, 10 - EvictionFactorTenths(policy))
    ELSE Zero

\* Mutant: the key count is not floored at 0.
NoClampKeys(keys) == keys

ClampKeys(keys) == NMax(Zero, keys)

UpdateKeys(init, new, expired) ==
    ClampKeys(NSub(NAdd(NumOfInt(init), new), expired))

\* timestamps / 3600
ToHours(ts) == [k \in 1..Len(ts) |-> NDivInt(ts[k], SecondsPerHour)]

---------------------------------------------------------------------------
(* analyze_memory_trend.                                                   *)

Finite(v) == [kind |-> "finite", v |-> v]

\* ((end - start) / start) * 100 on numpy float64 values: a zero start
\* gives inf, -inf or nan with a warning, not an exception.  A finite
\* quotient is truncated towards zero to the grid.
PercentChange(start, end) ==
    LET diff == NSub(end, start)
    IN  IF start = Zero
        THEN IF NLess(Zero, diff) THEN [kind |-> "inf", v |-> Zero]
             ELSE IF NLess(diff, Zero) THEN [kind |-> "-inf", v |-> Zero]
             ELSE [kind |-> "nan", v |-> Zero]
        ELSE LET s     == NAbs(start)
                 dm    == NDivMod(NAbs(diff), s)
                 m1    == NMulDiv(dm.r, 100, s)
                 m2    == NMulDiv(m1.r, Den, s)
                 mag   == Norm(100 * dm.q + m1.q, m2.q)
                 minus == NLess(diff, Zero) # NLess(start, Zero)
             IN  Finite(IF minus THEN NNeg(mag) ELSE mag)

\* Mutant: a change of exactly 1 percent counts as stable.
ClassifyInclusive(p) ==
    IF p.kind = "finite" /\ NLeq(NAbs(p.v), NumOfInt(1)) THEN "stable"
    ELSE IF p.kind = "inf" \/ (p.kind = "finite" /\ NLess(Zero, p.v))
         THEN "growing"
    ELSE "shrinking"

Classify(p) ==
    IF p.kind = "finite" /\ NLess(NAbs(p.v), NumOfInt(1)) THEN "stable"
    ELSE IF p.kind = "inf" \/ (p.kind = "finite" /\ NLess(Zero, p.v))
         THEN "growing"
    ELSE "shrinking"

AnalyzeMemoryTrend(memory_values) ==
    LET start_memory == memory_values[1]
        end_memory   == memory_values[Len(memory_values)]
        p            == PercentChange(start_memory, end_memory)
    IN  [trend |-> Classify(p), percent_change |-> p]

---------------------------------------------------------------------------
(* The calls a caller makes, and their inputs.  No function of the class  *)
(* has a raise statement or checks an argument, and the division of        *)
(* analyze_memory_trend is numpy's, which does not raise: every call ends  *)
(* with outcome = "returned".                                              *)

Policies == {NoEviction, AllkeysLru, VolatileLru, AllkeysPrefix, Allkey}

SimObjectSizes == {-1000, 1000, 8000}

SimInitialKeys == {-100, 0, 70000}

SimTtls == {0, 3600, 50000}

SimDurations == {1, 24}

MemObjectSizes == {-1000, 0, 1, 1000, 8000}

MemNumKeys == {-100, 0, 1, 70000, 100000}

CpuNumKeys == {0, 1, 100000, 999999, 1000000, 1000001, 2000000, 2000001}

CpuTps == {0, 1, 1000, 49999, 50000, 50001, 100000, 100001}

TrendFirsts == {-100, 0, 1, 100, 200, 300}

EmptyFrame == [timestamp |-> <<>>, memory |-> <<>>]

NoTrend == [kind |-> "finite", v |-> Zero]

Fresh ==
    /\ pc = "call"
    /\ timestamps = <<>>
    /\ i = 0
    /\ current_keys = Zero
    /\ new_keys = Zero
    /\ expired_keys = Zero
    /\ memory_usage = <<>>
    /\ memory_bytes = Zero
    /\ cpu_cores = 0
    /\ trend = ""
    /\ percent_change = NoTrend
    /\ outcome = "pending"

InitSimulate ==
    /\ op = "simulate_memory_usage"
    /\ avg_object_size \in SimObjectSizes
    /\ initial_keys \in SimInitialKeys
    /\ tps \in 0..MaxTps
    /\ ttl \in SimTtls
    /\ eviction_policy \in Policies
    /\ duration_hours \in SimDurations
    /\ num_keys = 0
    /\ df = EmptyFrame

InitCalculateMemory ==
    /\ op = "calculate_memory"
    /\ avg_object_size \in MemObjectSizes
    /\ num_keys \in MemNumKeys
    /\ initial_keys = 0 /\ tps = 0 /\ ttl = 0
    /\ eviction_policy = NoEviction /\ duration_hours = 0
    /\ df = EmptyFrame

InitCalculateCpuCores ==
    /\ op = "calculate_cpu_cores"
    /\ num_keys \in CpuNumKeys
    /\ tps \in CpuTps
    /\ avg_object_size = 0 /\ initial_keys = 0 /\ ttl = 0
    /\ eviction_policy = NoEviction /\ duration_hours = 0
    /\ df = EmptyFrame

\* analyze_memory_trend on a frame of the caller's own.
InitAnalyze ==
    /\ op = "analyze_memory_trend"
    /\ \E first \in TrendFirsts, delta \in (-MaxDelta)..MaxDelta :
          df = [timestamp |-> <<Zero, NumOfInt(1)>>,
                memory    |-> <<NumOfInt(first), NumOfInt(first + delta)>>]
    /\ avg_object_size = 0 /\ num_keys = 0 /\ initial_keys = 0 /\ tps = 0
    /\ ttl = 0 /\ eviction_policy = NoEviction /\ duration_hours = 0

Init ==
    /\ Fresh
    /\ \/ InitSimulate
       \/ InitCalculateMemory
       \/ InitCalculateCpuCores
       \/ InitAnalyze

inputs == <<op, avg_object_size, num_keys, initial_keys, tps, ttl,
            eviction_policy, duration_hours>>

simLocals == <<timestamps, i, current_keys, new_keys, expired_keys,
               memory_usage>>

\* calculate_memory(avg_object_size, num_keys)
CallCalculateMemory ==
    /\ pc = "call" /\ op = "calculate_memory"
    /\ memory_bytes' = CalculateMemory(avg_object_size, NumOfInt(num_keys))
    /\ outcome' = "returned"
    /\ pc' = "done"
    /\ UNCHANGED <<inputs, simLocals, df, cpu_cores, trend, percent_change>>

\* calculate_cpu_cores(num_keys, tps)
CallCalculateCpuCores ==
    /\ pc = "call" /\ op = "calculate_cpu_cores"
    /\ cpu_cores' = CalculateCpuCores(num_keys, tps)
    /\ outcome' = "returned"
    /\ pc' = "done"
    /\ UNCHANGED <<inputs, simLocals, df, memory_bytes, trend, percent_change>>

\* simulate_memory_usage, up to the loop.
SimulateEnter ==
    /\ pc = "call" /\ op = "simulate_memory_usage"
    /\ timestamps' = Linspace(duration_hours * SecondsPerHour, NumSamples)
    /\ memory_usage' = <<>>
    /\ current_keys' = NumOfInt(initial_keys)
    /\ pc' = "loop"
    /\ UNCHANGED <<inputs, i, new_keys, expired_keys, df, memory_bytes,
                   cpu_cores, trend, percent_change, outcome>>

\* One pass of "for t in timestamps".
SimulateLoop ==
    /\ pc = "loop" /\ i < Len(timestamps)
    /\ LET t       == timestamps[i + 1]
           new     == NewKeys(tps, t)
           expired == NAdd(ExpiredByTtl(tps, ttl, t),
                           Evicted(eviction_policy, current_keys, avg_object_size))
           keys    == UpdateKeys(initial_keys, new, expired)
       IN  /\ new_keys' = new
           /\ expired_keys' = expired
           /\ current_keys' = keys
           /\ memory_usage' = Append(memory_usage,
                                     CalculateMemory(avg_object_size, keys))
    /\ i' = i + 1
    /\ UNCHANGED <<inputs, pc, timestamps, df, memory_bytes, cpu_cores, trend,
                   percent_change, outcome>>

\* The loop is over: build the frame and return it.
SimulateReturn ==
    /\ pc = "loop" /\ i = Len(timestamps)
    /\ df' = [timestamp |-> ToHours(timestamps), memory |-> memory_usage]
    /\ outcome' = "returned"
    /\ pc' = "analyze"
    /\ UNCHANGED <<inputs, simLocals, memory_bytes, cpu_cores, trend,
                   percent_change>>

\* analyze_memory_trend(df): on the frame simulate_memory_usage returned
\* (as main does) or on the caller's own.
CallAnalyzeMemoryTrend ==
    /\ \/ pc = "analyze"
       \/ pc = "call" /\ op = "analyze_memory_trend"
    /\ LET r == AnalyzeMemoryTrend(df.memory)
       IN  /\ trend' = r.trend
           /\ percent_change' = r.percent_change
    /\ outcome' = "returned"
    /\ pc' = "done"
    /\ UNCHANGED <<inputs, simLocals, df, memory_bytes, cpu_cores>>

Next ==
    \/ CallCalculateMemory
    \/ CallCalculateCpuCores
    \/ SimulateEnter
    \/ SimulateLoop
    \/ SimulateReturn
    \/ CallAnalyzeMemoryTrend

Spec == Init /\ [][Next]_vars

TypeOK ==
    /\ pc \in {"call", "loop", "analyze", "done"}
    /\ i \in 0..NumSamples
    /\ Len(memory_usage) = i

---------------------------------------------------------------------------
(* The properties.  Their right-hand sides are written out in plain        *)
(* integer arithmetic on grid units (Units), not with the operators of the *)
(* model above.                                                            *)

Units(a) == a.w * Den + a.f

IsSim == op = "simulate_memory_usage"

Returned == pc \in {"analyze", "done"}

\* size * keys + 150 * keys + 50 MiB for whole numbers.
ClaimMemoryInt(size, keys) ==
    [w |-> size * keys + 150 * keys + 52428800, f |-> 0]

\* The same for a key count of ku grid units.
ClaimMemoryOfU(ku) ==
    LET c == avg_object_size + 150
    IN  [w |-> c * (ku \div Den) + ((c * (ku % Den)) \div Den) + 52428800,
         f |-> (c * (ku % Den)) % Den]

\* tps * max(0, t - ttl) if ttl > 0, else 0.
ClaimTtlExpiredU(t) ==
    IF ttl > 0
    THEN tps * (IF Units(t) > ttl * Den THEN Units(t) - ttl * Den ELSE 0)
    ELSE 0

ClaimStartsWithAllkeys(p) ==
    /\ Len(p) >= 7
    /\ <<p[1], p[2], p[3], p[4], p[5], p[6], p[7]>>
         = <<"a", "l", "l", "k", "e", "y", "s">>

\* cur * avg_object_size > 10 * BASE_MEMORY
ClaimOverThreshold(cur) ==
    LET whole == avg_object_size * cur.w + ((avg_object_size * cur.f) \div Den)
        frac  == (avg_object_size * cur.f) % Den
    IN  whole > 524288000 \/ (whole = 524288000 /\ frac > 0)

ClaimEvictionApplies(cur) ==
    eviction_policy # NoEviction /\ ClaimOverThreshold(cur)

\* cur * (1 - eviction_factor) when the eviction applies, else 0.
ClaimEvictedU(cur) ==
    IF ClaimEvictionApplies(cur)
    THEN IF ClaimStartsWithAllkeys(eviction_policy)
         THEN (Units(cur) * 2 + 5) \div 10
         ELSE (Units(cur) * 1 + 5) \div 10
    ELSE 0

\* max(0, initial_keys + tps * t - expired_keys), the eviction taken on cur.
ClaimKeysU(cur, t) ==
    LET k == initial_keys * Den + tps * Units(t) - ClaimTtlExpiredU(t)
             - ClaimEvictedU(cur)
    IN  IF k < 0 THEN 0 ELSE k

InDomain ==
    avg_object_size > 0 /\ initial_keys >= 0 /\ tps >= 0 /\ ttl >= 0

\* The pass of the loop that computes sample i + 1.
LoopPass == pc = "loop" /\ i' = i + 1

---------------------------------------------------------------------------
\* C1: simulate_memory_usage returns exactly 100 samples; their timestamps
\* are equally spaced, the first is 0 hours and the last is duration_hours.
C1_HundredEquallySpacedSamples ==
    (IsSim /\ Returned) =>
        /\ Len(df.timestamp) = 100
        /\ Len(df.memory) = 100
        /\ df.timestamp[1] = [w |-> 0, f |-> 0]
        /\ df.timestamp[100] = [w |-> duration_hours, f |-> 0]
        /\ \A k \in 1..99 :
              Units(df.timestamp[k + 1]) - Units(df.timestamp[k])
                = Units(df.timestamp[2]) - Units(df.timestamp[1])

C1_Witness ==
    /\ IsSim /\ Returned /\ duration_hours = 24
    /\ Len(df.timestamp) = 100
    /\ df.timestamp[100] = [w |-> 24, f |-> 0]
    /\ df.timestamp[2] # df.timestamp[1]

\* C2: the key count of every sample is clamped to >= 0 before the memory
\* is computed, and for inputs of the documented domain no sample's memory
\* is negative.
C2_MemoryNeverNegative ==
    IsSim =>
        /\ i >= 1 => current_keys.w >= 0
        /\ InDomain => \A k \in 1..Len(memory_usage) : memory_usage[k].w >= 0
        /\ InDomain => \A k \in 1..Len(df.memory) : df.memory[k].w >= 0

C2_Witness ==
    /\ IsSim /\ Returned /\ InDomain
    /\ eviction_policy # NoEviction
    /\ expired_keys # Zero
    /\ Len(df.memory) = 100

C4_CpuCores ==
    (op = "calculate_cpu_cores" /\ pc = "done") =>
        /\ cpu_cores >= 1
        /\ cpu_cores * 1000000 >= num_keys
        /\ cpu_cores * 50000 >= tps
        /\ \/ cpu_cores = 1
           \/ (cpu_cores - 1) * 1000000 < num_keys
           \/ (cpu_cores - 1) * 50000 < tps
        /\ (num_keys = 1000000 /\ tps = 0) => cpu_cores = 1
        /\ (num_keys = 1000001 /\ tps = 0) => cpu_cores = 2
        /\ (num_keys = 1 /\ tps = 100000) => cpu_cores = 2
        /\ (num_keys = 100000 /\ tps = 1000) => cpu_cores = 1

C4_Witness ==
    /\ op = "calculate_cpu_cores" /\ pc = "done"
    /\ num_keys = 1000001 /\ tps = 0 /\ cpu_cores = 2

\* C5: for non-negative arguments calculate_memory returns
\* size * keys + 150 * keys + 50 MiB, is non-decreasing in each argument,
\* and calculate_memory(0, 0) = 52428800.
C5_MemoryFormula ==
    (op = "calculate_memory" /\ pc = "done"
        /\ avg_object_size >= 0 /\ num_keys >= 0) =>
        /\ memory_bytes = ClaimMemoryInt(avg_object_size, num_keys)
        /\ \A s2 \in MemObjectSizes :
              s2 >= avg_object_size =>
                 memory_bytes.w <= CalculateMemory(s2, NumOfInt(num_keys)).w
        /\ \A k2 \in MemNumKeys :
              k2 >= num_keys =>
                 memory_bytes.w
                    <= CalculateMemory(avg_object_size, NumOfInt(k2)).w
        /\ (avg_object_size = 0 /\ num_keys = 0) =>
              memory_bytes = [w |-> 52428800, f |-> 0]

C5_Witness ==
    /\ op = "calculate_memory" /\ pc = "done"
    /\ avg_object_size = 1000 /\ num_keys = 100000
    /\ memory_bytes = [w |-> 167428800, f |-> 0]

\* C6: for a series whose first memory is positive, analyze_memory_trend
\* returns percent_change = (last - first) / first * 100 (here to the grid,
\* towards zero) and the trend is "stable" exactly when |percent_change| < 1,
\* "growing" exactly when percent_change >= 1 and "shrinking" exactly when
\* percent_change <= -1; a flat series is "stable" with percent_change 0.
C6_Trend ==
    (pc = "done" /\ Len(df.memory) >= 1 /\ NLess(Zero, df.memory[1])) =>
        LET first == df.memory[1]
            last  == df.memory[Len(df.memory)]
            v     == percent_change.v
        IN  /\ percent_change.kind = "finite"
            /\ trend \in {"stable", "growing", "shrinking"}
            /\ trend = "stable" <=> (v.w = 0 \/ (v.w = -1 /\ v.f > 0))
            /\ trend = "growing" <=> v.w >= 1
            /\ trend = "shrinking" <=> (v.w < -1 \/ (v.w = -1 /\ v.f = 0))
            /\ op = "analyze_memory_trend" =>
                  LET d == last.w - first.w
                  IN  /\ d >= 0 => Units(v) = (100 * d * Den) \div first.w
                      /\ d < 0 => Units(v) = -((100 * (-d) * Den) \div first.w)
                      /\ trend = "stable" <=> (100 * d < first.w
                                               /\ 100 * d > -first.w)
                      /\ trend = "growing" <=> 100 * d >= first.w
                      /\ trend = "shrinking" <=> 100 * d <= -first.w
            /\ first = last => (trend = "stable" /\ v = [w |-> 0, f |-> 0])
            /\ (IsSim /\ eviction_policy = NoEviction /\ tps = 0) =>
                  (trend = "stable" /\ v = [w |-> 0, f |-> 0])

C6_Witness ==
    /\ op = "analyze_memory_trend" /\ pc = "done"
    /\ df.memory = <<[w |-> 100, f |-> 0], [w |-> 101, f |-> 0]>>
    /\ trend = "growing"
    /\ percent_change = [kind |-> "finite", v |-> [w |-> 1, f |-> 0]]

\* C7, as the specification states it: a negative object size or key count
\* makes the Estimator and the Simulator raise instead of returning a value.
C7_NegativeInputRaises ==
    (pc = "done" /\ op \in {"calculate_memory", "simulate_memory_usage"}
        /\ (avg_object_size < 0 \/ num_keys < 0 \/ initial_keys < 0)) =>
        outcome = "raised"

\* C7, amended: calculate_memory and simulate_memory_usage do not check
\* their arguments; with a negative object size or key count they return
\* what the formulas give (calculate_memory a possibly negative byte count,
\* simulate_memory_usage its 100 samples, a negative key count floored at 0).
C7_NegativeInputReturnsFormula ==
    (pc = "done" /\ (avg_object_size < 0 \/ num_keys < 0 \/ initial_keys < 0)) =>
        /\ outcome = "returned"
        /\ op = "calculate_memory" =>
              memory_bytes = ClaimMemoryInt(avg_object_size, num_keys)
        /\ IsSim =>
              /\ Len(df.memory) = 100
              /\ df.memory[1] =
                    ClaimMemoryOfU(ClaimKeysU(NumOfInt(initial_keys), Zero))

C7_Witness ==
    /\ pc = "done" /\ op = "calculate_memory" /\ outcome = "returned"
    /\ avg_object_size = -1000 /\ num_keys = 100000
    /\ memory_bytes = [w |-> -32571200, f |-> 0]

\* What evaluating the timestamp t alone gives: the loop body entered with
\* current_keys = initial_keys.
SampleAlone(t) == ClaimMemoryOfU(ClaimKeysU(NumOfInt(initial_keys), t))

\* C8, as the specification states it: every sample is what evaluating its
\* timestamp alone gives, whatever the earlier samples produced.
C8_SamplesIndependent ==
    IsSim => \A k \in 1..Len(memory_usage) :
                memory_usage[k] = SampleAlone(timestamps[k])

\* C8, amended: new_keys and the TTL expiry of a sample depend on its
\* timestamp and the inputs alone, but the eviction test and amount use the
\* key count carried over from the previous sample (initial_keys at the
\* first): a sample is a function of t, the inputs and that key count, and
\* is what evaluating t alone gives when the policy is "noeviction".
C8_SamplesCarryKeys ==
    [][(IsSim /\ LoopPass) =>
          LET t  == timestamps[i + 1]
              ku == ClaimKeysU(current_keys, t)
          IN  /\ i = 0 => current_keys = [w |-> initial_keys, f |-> 0]
              /\ Units(current_keys') = ku
              /\ memory_usage' = Append(memory_usage, ClaimMemoryOfU(ku))
              /\ eviction_policy = NoEviction =>
                    memory_usage'[i + 1] = SampleAlone(t)]_vars

C8_Witness ==
    /\ IsSim /\ i >= 2 /\ InDomain
    /\ current_keys # NumOfInt(initial_keys)
    /\ memory_usage[i] # SampleAlone(timestamps[i])

\* C9: in every pass the eviction adjustment is applied exactly when the
\* policy is not "noeviction" and current_keys * avg_object_size exceeds
\* 10 * BASE_MEMORY; it adds current_keys * (1 - eviction_factor) to
\* expired_keys, the factor 0.8 for names starting with "allkeys" and 0.9
\* for all others; with "noeviction" nothing is evicted.
C9_EvictionAdjustment ==
    [][(IsSim /\ LoopPass) =>
          LET t == timestamps[i + 1]
          IN  /\ Units(expired_keys')
                   = ClaimTtlExpiredU(t) + ClaimEvictedU(current_keys)
              /\ eviction_policy = NoEviction =>
                    Units(expired_keys') = ClaimTtlExpiredU(t)
              /\ (Units(expired_keys') # ClaimTtlExpiredU(t)) =>
                    ClaimEvictionApplies(current_keys)
              /\ (ClaimEvictionApplies(current_keys) /\ current_keys.w > 0) =>
                    Units(expired_keys') > ClaimTtlExpiredU(t)]_vars

C9_Witness ==
    /\ IsSim /\ i >= 1 /\ tps = 0
    /\ eviction_policy = AllkeysPrefix
    /\ initial_keys = 70000 /\ avg_object_size = 8000
    /\ expired_keys = [w |-> 14000, f |-> 0]

MinInt(a, b) == IF a < b THEN a ELSE b

====
